---- MODULE Spec2Model ----
(***************************************************************************)
(* Circuit simulation core of the Orion CAD designer: the typed pin model  *)
(* and the design surface of cad_designer.py, and the CircuitSimulator     *)
(* (pin tables, signal propagation, line interpreter) of code_editor.py.   *)
(***************************************************************************)
EXTENDS Integers, Sequences, FiniteSets, TLC

VARIABLES
    comps,                  \* every ComponentItem object built so far; a reference is its index
    wireObjs,               \* every WireItem object built so far; a reference is its index
    scene,                  \* CADCanvas.graphics_scene: the items added, in insertion order
    drawing_wire,           \* CADCanvas.drawing_wire
    current_wire,           \* CADCanvas.current_wire (reference, None = 0)
    wire_start_component,   \* CADCanvas.wire_start_component (reference, None = 0)
    wire_start_pin,         \* CADCanvas.wire_start_pin (pin name, None = NoName)
    component_counter,      \* CADCanvas.component_counter
    arduino_pins,           \* CircuitSimulator.arduino_pins
    analog_pins,            \* CircuitSimulator.analog_pins
    components,             \* CircuitSimulator.components: dict, as a sequence of [key, ref]
    wires,                  \* CircuitSimulator.wires: list of WireItem references
    running,                \* CircuitSimulator.running
    code,                   \* CircuitSimulator.code: the last source text, as tokens
    pc,                     \* where a call of execute_code stands: idle, scanning a line, in a pass
    raised,                 \* exception that escaped the last call (NoError = none)
    lastOp,                 \* the call that produced the current state
    probe                   \* last Pin.can_connect_to call: its two pins and its result

vars == <<comps, wireObjs, scene, drawing_wire, current_wire, wire_start_component,
          wire_start_pin, component_counter, arduino_pins, analog_pins, components,
          wires, running, code, pc, raised, lastOp, probe>>

canvasVars == <<scene, drawing_wire, current_wire, wire_start_component,
                wire_start_pin, component_counter>>

simVars == <<arduino_pins, analog_pins, components, wires, running, code, pc>>

(***************************************************************************)
(* Bounds of the model.                                                    *)
(***************************************************************************)
MaxWires == 2        \* longest wire list handed to load_circuit
MaxLines == 2        \* most lines of a source text (multi-line programs)
MaxParseLines == 1   \* most lines of a source text drawn from the large line catalogue
MaxParseWires == 1   \* longest wire list used with the large line catalogue
MaxComps == 2        \* most ComponentItem objects the design surface builds
MaxCanvasWires == 1  \* most WireItem objects the design surface builds

(***************************************************************************)
(* Python values.                                                          *)
(***************************************************************************)
None == 0            \* a missing object reference
NoName == "<None>"   \* None where a pin name is expected
NoId == <<>>         \* None where a component_id is expected
NoError == "<none>"  \* no exception escaped

\* no call of execute_code is under way
Idle == [at |-> "idle", line |-> 0, wire |-> 0]

(***************************************************************************)
(* Pin names (module constants of both files).                             *)
(***************************************************************************)
DigitalPinNames ==
    <<"D0", "D1", "D2", "D3", "D4", "D5", "D6", "D7",
      "D8", "D9", "D10", "D11", "D12", "D13">>

AnalogPinNames == <<"A0", "A1", "A2", "A3", "A4", "A5">>

\* f"D{i}" for i in range(14)
DigitalPinName(i) == DigitalPinNames[i + 1]

\* f"A{i}" for i in range(6)
AnalogPinName(i) == AnalogPinNames[i + 1]

ARDUINO_DIGITAL_PINS == {DigitalPinNames[i] : i \in 1..Len(DigitalPinNames)}

ARDUINO_ANALOG_PINS == {AnalogPinNames[i] : i \in 1..Len(AnalogPinNames)}

(***************************************************************************)
(* Pin                                                                     *)
(***************************************************************************)
Pin(name, pin_type) == [name |-> name, pin_type |-> pin_type]

\* Pin.can_connect_to, with the test on the two kinds joined by "and"
can_connect_to_BothPower(self, other) ==
    IF self.pin_type = "power" /\ other.pin_type = "power"
    THEN self.name = other.name
    ELSE TRUE

\* Pin.can_connect_to
can_connect_to(self, other) ==
    IF self.pin_type = "power" \/ other.pin_type = "power"
    THEN self.name = other.name
    ELSE TRUE

(***************************************************************************)
(* ComponentItem                                                           *)
(***************************************************************************)
\* the palette of ComponentLibrary, emoji removed
LibraryTypes ==
    {"Arduino Uno", "Arduino Nano", "LED", "Resistor", "Capacitor", "Button",
     "Potentiometer", "Temperature Sensor", "Motion Sensor", "Light Sensor",
     "Servo Motor", "DC Motor", "LCD Display", "OLED Display", "Breadboard",
     "Battery 9V"}

\* Python's  sub in component_type  over the palette's type names
Contains(sub, component_type) ==
    CASE sub = "Arduino"      -> component_type \in {"Arduino Uno", "Arduino Nano"}
      [] sub = "Arduino Uno"  -> component_type = "Arduino Uno"
      [] sub = "Arduino Nano" -> component_type = "Arduino Nano"
      [] sub = "Sensor"       -> component_type \in
                                   {"Temperature Sensor", "Motion Sensor", "Light Sensor"}
      [] sub = "Motor"        -> component_type \in {"Servo Motor", "DC Motor"}
      [] OTHER                -> FALSE

DefaultWidth == 100
DefaultHeight == 80

EmptyDict == [k \in {} |-> FALSE]

\* d[key] = value on a Python dict
DictSet(d, key, value) ==
    [k \in DOMAIN d \cup {key} |-> IF k = key THEN value ELSE d[k]]

\* the indices i of range(lo, hi) that pass Keep, in order
RangeWhere(lo, hi, Keep(_)) ==
    SelectSeq([k \in 1..(hi - lo) |-> lo + k - 1], Keep)

\* the board branch of ComponentItem._create_pins
ArduinoPins(width, height) ==
    LET pin_spacing == 15
        start_y == 25
        left == RangeWhere(0, 8, LAMBDA i : start_y + i * pin_spacing < height - 10)
        leftPins == [k \in 1..Len(left) |-> Pin(DigitalPinName(left[k]), "digital")]
        gnd_y == start_y + 8 * pin_spacing
        gndPins == IF gnd_y < height - 10 THEN <<Pin("GND", "gnd")>> ELSE <<>>
        right == RangeWhere(8, 14,
                            LAMBDA i : start_y + (i - 8) * pin_spacing < height - 10)
        rightPins == [k \in 1..Len(right) |-> Pin(DigitalPinName(right[k]), "digital")]
        power_y == start_y + 6 * pin_spacing
        powerPins == IF power_y < height - 10
                     THEN <<Pin("5V", "power"), Pin("GND", "gnd")>>
                     ELSE <<>>
        analog_start_x == 15
        analog == RangeWhere(0, 6, LAMBDA i : analog_start_x + i * 13 < width - 15)
        analogPins == [k \in 1..Len(analog) |-> Pin(AnalogPinName(analog[k]), "analog")]
    IN  leftPins \o gndPins \o rightPins \o powerPins \o analogPins

\* ComponentItem._create_pins: the pins of a component of the given type and size
CreatePins(component_type, width, height) ==
    IF Contains("Arduino Uno", component_type) \/ Contains("Arduino Nano", component_type)
    THEN ArduinoPins(width, height)
    ELSE IF component_type = "LED"
    THEN <<Pin("Anode", "digital"), Pin("Cathode", "gnd")>>
    ELSE IF component_type = "Resistor"
    THEN <<Pin("T1", "digital"), Pin("T2", "digital")>>
    ELSE IF component_type = "Button"
    THEN <<Pin("Pin1", "digital"), Pin("Pin2", "digital")>>
    ELSE IF Contains("Sensor", component_type)
    THEN <<Pin("VCC", "power"), Pin("GND", "gnd"), Pin("OUT", "analog")>>
    ELSE IF Contains("Motor", component_type)
    THEN <<Pin("+", "power"), Pin("-", "gnd")>>
    ELSE <<Pin("VCC", "power"), Pin("GND", "gnd"), Pin("SIG", "digital")>>

\* ComponentItem._create_pins: the initial simulation state of a component
CreateState(component_type) ==
    IF Contains("Arduino Uno", component_type) \/ Contains("Arduino Nano", component_type)
    THEN EmptyDict
    ELSE IF component_type = "LED"
    THEN [on |-> FALSE, brightness |-> 0]
    ELSE IF component_type = "Resistor"
    THEN EmptyDict
    ELSE IF component_type = "Button"
    THEN [pressed |-> FALSE]
    ELSE IF Contains("Sensor", component_type)
    THEN [value |-> 0]
    ELSE IF Contains("Motor", component_type)
    THEN [speed |-> 0]
    ELSE EmptyDict

\* ComponentItem.__init__ with the default width and height
ComponentItem(component_type) ==
    [component_type |-> component_type,
     component_id   |-> NoId,
     pins           |-> CreatePins(component_type, DefaultWidth, DefaultHeight),
     state          |-> CreateState(component_type)]

RECURSIVE FindPin(_, _, _)
FindPin(pins, pin_name, i) ==
    IF i > Len(pins) THEN None
    ELSE IF pins[i].name = pin_name THEN i
    ELSE FindPin(pins, pin_name, i + 1)

\* get_pin_by_name answering with the first pin when no pin has the name
get_pin_by_name_FirstOnMiss(component, pin_name) ==
    IF FindPin(component.pins, pin_name, 1) = None /\ component.pins # <<>>
    THEN 1
    ELSE FindPin(component.pins, pin_name, 1)

\* ComponentItem.get_pin_by_name: the index of the first pin of that name, or None
get_pin_by_name(component, pin_name) == FindPin(component.pins, pin_name, 1)

(***************************************************************************)
(* WireItem                                                                *)
(***************************************************************************)
\* WireItem.__init__
WireItem(start_comp, start_pin, end_comp, end_pin) ==
    [start_component |-> start_comp,
     start_pin_name  |-> start_pin,
     end_component   |-> end_comp,
     end_pin_name    |-> end_pin]

(***************************************************************************)
(* CircuitSimulator: signal propagation.  The operators below work on a    *)
(* record s = [arduino_pins, analog_pins, comps, raised]: the two pin      *)
(* tables, the component objects (whose state the simulator mutates        *)
(* through its references) and the exception in flight.                    *)
(***************************************************************************)
hasattr(obj, attr) == attr \in DOMAIN obj

RECURSIVE DictPut(_, _, _, _)
\* d[key] = ref on the simulator's component dict: a known key keeps its place
DictPut(d, key, ref, i) ==
    IF i > Len(d) THEN Append(d, [key |-> key, ref |-> ref])
    ELSE IF d[i].key = key THEN [d EXCEPT ![i].ref = ref]
    ELSE DictPut(d, key, ref, i + 1)

RECURSIVE ComponentDict(_, _, _, _)
\* {c.component_id: c for c in components if hasattr(c, 'component_id')}
ComponentDict(cs, refs, i, acc) ==
    IF i > Len(refs) THEN acc
    ELSE IF hasattr(cs[refs[i]], "component_id")
    THEN ComponentDict(cs, refs, i + 1, DictPut(acc, cs[refs[i]].component_id, refs[i], 1))
    ELSE ComponentDict(cs, refs, i + 1, acc)

RECURSIVE FindArduino(_, _, _)
\* _propagate_signals, lines 101-105: the first component whose type names a board
FindArduino(cs, dict, i) ==
    IF i > Len(dict) THEN [arduino |-> None, raised |-> NoError]
    ELSE IF ~hasattr(cs[dict[i].ref], "component_type")
    THEN [arduino |-> None, raised |-> "AttributeError"]
    ELSE IF Contains("Arduino", cs[dict[i].ref].component_type)
    THEN [arduino |-> dict[i].ref, raised |-> NoError]
    ELSE FindArduino(cs, dict, i + 1)

\* _affect_component without the test on the pin name
affect_component_AnyPin(s, component, pin_name, state) ==
    IF s.comps[component].component_type = "LED"
    THEN [s EXCEPT !.comps[component].state =
             DictSet(DictSet(@, "on", state), "brightness", IF state THEN 255 ELSE 0)]
    ELSE s

\* _affect_component writing on and brightness whatever the component is
affect_component_AnyType(s, component, pin_name, state) ==
    [s EXCEPT !.comps[component].state =
        DictSet(DictSet(@, "on", state), "brightness", IF state THEN 255 ELSE 0)]

\* _affect_component switching an LED on and never off
affect_component_OnlyOn(s, component, pin_name, state) ==
    IF s.comps[component].component_type = "LED"
    THEN IF pin_name = "Anode" /\ state
         THEN [s EXCEPT !.comps[component].state =
                  DictSet(DictSet(@, "on", state), "brightness", IF state THEN 255 ELSE 0)]
         ELSE s
    ELSE s

\* _affect_component setting the brightness of an LED and leaving its on key
affect_component_BrightnessOnly(s, component, pin_name, state) ==
    IF s.comps[component].component_type = "LED"
    THEN IF pin_name = "Anode"
         THEN [s EXCEPT !.comps[component].state =
                  DictSet(@, "brightness", IF state THEN 255 ELSE 0)]
         ELSE s
    ELSE s

\* CircuitSimulator._affect_component
affect_component(s, component, pin_name, state) ==
    IF s.comps[component].component_type = "LED"
    THEN IF pin_name = "Anode"
         THEN [s EXCEPT !.comps[component].state =
                  DictSet(DictSet(@, "on", state), "brightness", IF state THEN 255 ELSE 0)]
         ELSE s
    ELSE s

\* _read_component reading the on key of an LED as well
read_component_ReadsLed(s, component, pin_name) ==
    IF s.comps[component].component_type = "Button"
    THEN IF "pressed" \in DOMAIN s.comps[component].state
         THEN s.comps[component].state["pressed"]
         ELSE FALSE
    ELSE IF s.comps[component].component_type = "LED"
    THEN s.comps[component].state["on"]
    ELSE FALSE

\* _read_component reading the key without a default
read_component_NoDefault(s, component, pin_name) ==
    IF s.comps[component].component_type = "Button"
    THEN IF "pressed" \in DOMAIN s.comps[component].state
         THEN s.comps[component].state["pressed"]
         ELSE TRUE
    ELSE FALSE

\* CircuitSimulator._read_component
read_component(s, component, pin_name) ==
    IF s.comps[component].component_type = "Button"
    THEN IF "pressed" \in DOMAIN s.comps[component].state
         THEN s.comps[component].state["pressed"]
         ELSE FALSE
    ELSE FALSE

\* the loop body reading the attributes of a wire without the hasattr test
PropagateWire_NoAttrCheck(s, arduino, wire) ==
    IF ~hasattr(wire, "start_component") \/ ~hasattr(wire, "end_component")
    THEN [s EXCEPT !.raised = "AttributeError"]
    ELSE IF wire.start_component # None /\ wire.end_component # None
    THEN IF ~hasattr(wire, "start_pin_name") \/ ~hasattr(wire, "end_pin_name")
         THEN [s EXCEPT !.raised = "AttributeError"]
         ELSE LET sc == s.comps[wire.start_component]
                  ec == s.comps[wire.end_component]
                  start_pin == get_pin_by_name(sc, wire.start_pin_name)
                  end_pin == get_pin_by_name(ec, wire.end_pin_name)
              IN  IF start_pin = None \/ end_pin = None
                  THEN s
                  ELSE IF wire.start_component = arduino
                  THEN IF sc.pins[start_pin].name \in DOMAIN s.arduino_pins
                       THEN affect_component(s, wire.end_component,
                                             ec.pins[end_pin].name,
                                             s.arduino_pins[sc.pins[start_pin].name])
                       ELSE s
                  ELSE IF wire.end_component = arduino
                  THEN IF ec.pins[end_pin].name \in DOMAIN s.arduino_pins
                       THEN [s EXCEPT !.arduino_pins[ec.pins[end_pin].name] =
                                read_component(s, wire.start_component,
                                               sc.pins[start_pin].name)]
                       ELSE s
                  ELSE s
    ELSE s

\* the loop body driving the end component of a wire between two components
\* neither of which is the board
PropagateWire_Chained(s, arduino, wire) ==
    IF ~hasattr(wire, "start_component") \/ ~hasattr(wire, "end_component")
    THEN s
    ELSE IF wire.start_component # None /\ wire.end_component # None
    THEN IF ~hasattr(wire, "start_pin_name") \/ ~hasattr(wire, "end_pin_name")
         THEN [s EXCEPT !.raised = "AttributeError"]
         ELSE LET sc == s.comps[wire.start_component]
                  ec == s.comps[wire.end_component]
                  start_pin == get_pin_by_name(sc, wire.start_pin_name)
                  end_pin == get_pin_by_name(ec, wire.end_pin_name)
              IN  IF start_pin = None \/ end_pin = None
                  THEN s
                  ELSE IF wire.start_component = arduino
                  THEN IF sc.pins[start_pin].name \in DOMAIN s.arduino_pins
                       THEN affect_component(s, wire.end_component,
                                             ec.pins[end_pin].name,
                                             s.arduino_pins[sc.pins[start_pin].name])
                       ELSE s
                  ELSE IF wire.end_component = arduino
                  THEN IF ec.pins[end_pin].name \in DOMAIN s.arduino_pins
                       THEN [s EXCEPT !.arduino_pins[ec.pins[end_pin].name] =
                                read_component(s, wire.start_component,
                                               sc.pins[start_pin].name)]
                       ELSE s
                  ELSE affect_component(s, wire.end_component, ec.pins[end_pin].name,
                                        TRUE)
    ELSE s

\* the loop body asking a wire's components for their pins without testing that
\* the wire has both: None has no get_pin_by_name
PropagateWire_NoEndCheck(s, arduino, wire) ==
    IF ~hasattr(wire, "start_component") \/ ~hasattr(wire, "end_component")
    THEN s
    ELSE IF wire.start_component # None /\ wire.end_component # None
    THEN IF ~hasattr(wire, "start_pin_name") \/ ~hasattr(wire, "end_pin_name")
         THEN [s EXCEPT !.raised = "AttributeError"]
         ELSE LET sc == s.comps[wire.start_component]
                  ec == s.comps[wire.end_component]
                  start_pin == get_pin_by_name(sc, wire.start_pin_name)
                  end_pin == get_pin_by_name(ec, wire.end_pin_name)
              IN  IF start_pin = None \/ end_pin = None
                  THEN s
                  ELSE IF wire.start_component = arduino
                  THEN IF sc.pins[start_pin].name \in DOMAIN s.arduino_pins
                       THEN affect_component(s, wire.end_component,
                                             ec.pins[end_pin].name,
                                             s.arduino_pins[sc.pins[start_pin].name])
                       ELSE s
                  ELSE IF wire.end_component = arduino
                  THEN IF ec.pins[end_pin].name \in DOMAIN s.arduino_pins
                       THEN [s EXCEPT !.arduino_pins[ec.pins[end_pin].name] =
                                read_component(s, wire.start_component,
                                               sc.pins[start_pin].name)]
                       ELSE s
                  ELSE s
    ELSE [s EXCEPT !.raised = "AttributeError"]

\* the body of the loop of _propagate_signals (lines 111-136) for one wire
PropagateWire(s, arduino, wire) ==
    IF ~hasattr(wire, "start_component") \/ ~hasattr(wire, "end_component")
    THEN s
    ELSE IF wire.start_component # None /\ wire.end_component # None
    THEN IF ~hasattr(wire, "start_pin_name") \/ ~hasattr(wire, "end_pin_name")
         THEN [s EXCEPT !.raised = "AttributeError"]
         ELSE LET sc == s.comps[wire.start_component]
                  ec == s.comps[wire.end_component]
                  start_pin == get_pin_by_name(sc, wire.start_pin_name)
                  end_pin == get_pin_by_name(ec, wire.end_pin_name)
              IN  IF start_pin = None \/ end_pin = None
                  THEN s
                  ELSE IF wire.start_component = arduino
                  THEN IF sc.pins[start_pin].name \in DOMAIN s.arduino_pins
                       THEN affect_component(s, wire.end_component,
                                             ec.pins[end_pin].name,
                                             s.arduino_pins[sc.pins[start_pin].name])
                       ELSE s
                  ELSE IF wire.end_component = arduino
                  THEN IF ec.pins[end_pin].name \in DOMAIN s.arduino_pins
                       THEN [s EXCEPT !.arduino_pins[ec.pins[end_pin].name] =
                                read_component(s, wire.start_component,
                                               sc.pins[start_pin].name)]
                       ELSE s
                  ELSE s
    ELSE s

RECURSIVE PropagateWires_LastFirst(_, _, _, _, _)
\* the loop of _propagate_signals going over the wires from the last to the first
PropagateWires_LastFirst(s, arduino, ws, wobjs, i) ==
    IF i > Len(ws) \/ s.raised # NoError THEN s
    ELSE PropagateWires_LastFirst(PropagateWire(s, arduino, wobjs[ws[Len(ws) + 1 - i]]),
                                  arduino, ws, wobjs, i + 1)

RECURSIVE PropagateWires(_, _, _, _, _)
\* the loop of _propagate_signals: every wire once, in list order
PropagateWires(s, arduino, ws, wobjs, i) ==
    IF i > Len(ws) \/ s.raised # NoError THEN s
    ELSE PropagateWires(PropagateWire(s, arduino, wobjs[ws[i]]), arduino, ws, wobjs, i + 1)

\* _propagate_signals raising when the graph holds no board
propagate_signals_Strict(s, dict, ws, wobjs) ==
    LET found == FindArduino(s.comps, dict, 1)
    IN  IF found.raised # NoError THEN [s EXCEPT !.raised = found.raised]
        ELSE IF found.arduino = None THEN [s EXCEPT !.raised = "InvalidState"]
        ELSE PropagateWires(s, found.arduino, ws, wobjs, 1)

\* _propagate_signals going over the wires a second time
propagate_signals_TwoPasses(s, dict, ws, wobjs) ==
    LET found == FindArduino(s.comps, dict, 1)
    IN  IF found.raised # NoError THEN [s EXCEPT !.raised = found.raised]
        ELSE IF found.arduino = None THEN s
        ELSE PropagateWires(PropagateWires(s, found.arduino, ws, wobjs, 1),
                            found.arduino, ws, wobjs, 1)

\* CircuitSimulator._propagate_signals
propagate_signals(s, dict, ws, wobjs) ==
    LET found == FindArduino(s.comps, dict, 1)
    IN  IF found.raised # NoError THEN [s EXCEPT !.raised = found.raised]
        ELSE IF found.arduino = None THEN s
        ELSE PropagateWires(s, found.arduino, ws, wobjs, 1)

\* set_pin refusing to store a level while no component is loaded
set_pin_NeedsCircuit(s, pin_name, value, dict, ws, wobjs) ==
    LET t == IF dict = <<>> THEN s
             ELSE IF pin_name \in DOMAIN s.arduino_pins
             THEN [s EXCEPT !.arduino_pins[pin_name] = value]
             ELSE IF pin_name \in DOMAIN s.analog_pins
             THEN [s EXCEPT !.analog_pins[pin_name] = value]
             ELSE s
    IN  propagate_signals(t, dict, ws, wobjs)

\* set_pin propagating before it stores the level
set_pin_PropagateFirst(s, pin_name, value, dict, ws, wobjs) ==
    LET t == propagate_signals(s, dict, ws, wobjs)
    IN  IF pin_name \in DOMAIN t.arduino_pins
        THEN [t EXCEPT !.arduino_pins[pin_name] = value]
        ELSE IF pin_name \in DOMAIN t.analog_pins
        THEN [t EXCEPT !.analog_pins[pin_name] = value]
        ELSE t

\* CircuitSimulator.set_pin
set_pin(s, pin_name, value, dict, ws, wobjs) ==
    LET t == IF pin_name \in DOMAIN s.arduino_pins
             THEN [s EXCEPT !.arduino_pins[pin_name] = value]
             ELSE IF pin_name \in DOMAIN s.analog_pins
             THEN [s EXCEPT !.analog_pins[pin_name] = value]
             ELSE s
    IN  propagate_signals(t, dict, ws, wobjs)

(***************************************************************************)
(* CircuitSimulator: the line interpreter.  A source text is a sequence of *)
(* tokens: a word (a maximal run of \w characters that is not all digits), *)
(* a numeral (a maximal run of digits), a run of blanks, a punctuation     *)
(* character or a newline.                                                 *)
(***************************************************************************)
Word(str) == [k |-> "w", s |-> str, d |-> <<>>]
Num(digits) == [k |-> "n", s |-> "", d |-> digits]
Blank == [k |-> "s", s |-> " ", d |-> <<>>]
Punct(ch) == [k |-> "p", s |-> ch, d |-> <<>>]
Newline == [k |-> "nl", s |-> "NL", d |-> <<>>]
EndOfLine == [k |-> "end", s |-> "", d |-> <<>>]

\* name in word, over the words of the model's lines
WordContains(word, name) ==
    IF name = "digitalWrite"
    THEN word \in {"digitalWrite", "digitalWriteFast", "my_digitalWrite"}
    ELSE word \in {"analogWrite", "analogWriteFast", "my_analogWrite"}

\* word.endswith(name), over the words of the model's lines: where the pattern,
\* which begins with name, can begin
WordEndsWith(word, name) ==
    IF name = "digitalWrite"
    THEN word \in {"digitalWrite", "my_digitalWrite"}
    ELSE word \in {"analogWrite", "my_analogWrite"}

\* 'name' in line
InLine(name, line) ==
    \E i \in 1..Len(line) : line[i].k = "w" /\ WordContains(line[i].s, name)

RECURSIVE SplitLines(_, _, _, _)
\* code.split('\n')
SplitLines(text, i, current, acc) ==
    IF i > Len(text) THEN Append(acc, current)
    ELSE IF text[i].k = "nl"
    THEN SplitLines(text, i + 1, <<>>, Append(acc, current))
    ELSE SplitLines(text, i + 1, Append(current, text[i]), acc)

RECURSIVE LStrip(_)
LStrip(line) ==
    IF line # <<>> /\ Head(line).k = "s" THEN LStrip(Tail(line)) ELSE line

RECURSIVE RStrip(_)
RStrip(line) ==
    IF line # <<>> /\ line[Len(line)].k = "s"
    THEN RStrip(SubSeq(line, 1, Len(line) - 1))
    ELSE line

\* line.strip()
Strip(line) == RStrip(LStrip(line))

RECURSIVE IntOf(_)
\* int(digits)
IntOf(digits) ==
    IF digits = <<>> THEN 0
    ELSE 10 * IntOf(SubSeq(digits, 1, Len(digits) - 1)) + digits[Len(digits)]

At(line, i) == IF i <= Len(line) THEN line[i] ELSE EndOfLine

RECURSIVE SkipBlanks(_, _)
\* \s* from position i: the first position that holds no blank
SkipBlanks(line, i) ==
    IF At(line, i).k = "s" THEN SkipBlanks(line, i + 1) ELSE i

\* \w+
IsWordRun(tok) == tok.k \in {"w", "n"}

\* \d+
IsDigitRun(tok) == tok.k = "n"

NoMatch == [ok |-> FALSE, pin |-> EndOfLine, value |-> EndOfLine]

\* the second group of the two patterns: (\w+) for digitalWrite, (\d+) for analogWrite
SecondGroup(name, tok) ==
    IF name = "analogWrite" THEN IsDigitRun(tok) ELSE IsWordRun(tok)

\* name\s*\(\s*(\w+)\s*,\s*(<second group>)\s*\)  matched with name ending at token i
MatchAt(line, i, name) ==
    LET open == SkipBlanks(line, i + 1)
        first == SkipBlanks(line, open + 1)
        comma == SkipBlanks(line, first + 1)
        second == SkipBlanks(line, comma + 1)
        close == SkipBlanks(line, second + 1)
    IN  IF /\ At(line, i).k = "w" /\ WordEndsWith(At(line, i).s, name)
           /\ At(line, open).s = "("
           /\ IsWordRun(At(line, first))
           /\ At(line, comma).s = ","
           /\ SecondGroup(name, At(line, second))
           /\ At(line, close).s = ")"
        THEN [ok |-> TRUE, pin |-> At(line, first), value |-> At(line, second)]
        ELSE NoMatch

RECURSIVE Search(_, _, _)
\* re.search: the leftmost match in the line
Search(line, i, name) ==
    IF i > Len(line) THEN NoMatch
    ELSE LET m == MatchAt(line, i, name)
         IN  IF m.ok THEN m ELSE Search(line, i + 1, name)

(***************************************************************************)
(* The source texts of the model.                                          *)
(***************************************************************************)
\* the sequences over S of length at most n
SeqsUpTo(S, n) == UNION {[1..k -> S] : k \in 0..n}

\* "  digitalWrite(<pin>, <value>);"
DigitalWriteLine(pin, value) ==
    <<Blank, Word("digitalWrite"), Punct("("), pin, Punct(","), Blank, value,
      Punct(")"), Punct(";")>>

\* "  analogWrite(<pin>, <value>);"
AnalogWriteLine(pin, value) ==
    <<Blank, Word("analogWrite"), Punct("("), pin, Punct(","), Blank, value,
      Punct(")"), Punct(";")>>

RECURSIVE JoinLines(_)
\* '\n'.join(lines)
JoinLines(lines) ==
    IF lines = <<>> THEN <<>>
    ELSE IF Len(lines) = 1 THEN lines[1]
    ELSE lines[1] \o <<Newline>> \o JoinLines(Tail(lines))

\* the lines of the multi-line programs
ProgramLines ==
    { DigitalWriteLine(Word("D2"), Word("HIGH")),
      DigitalWriteLine(Word("D2"), Word("LOW")),
      DigitalWriteLine(Word("D13"), Word("HIGH")) }

\* the lines of the large catalogue
ParseLines ==
    { DigitalWriteLine(Word("D2"), Word("HIGH")),
      DigitalWriteLine(Word("D2"), Word("LOW")),
      DigitalWriteLine(Word("D13"), Word("HIGH")),
      AnalogWriteLine(Word("D2"), Num(<<1, 2, 8>>)),
      AnalogWriteLine(Word("D2"), Num(<<1, 2, 7>>)),
      DigitalWriteLine(Word("D14"), Word("HIGH")),
      AnalogWriteLine(Word("A0"), Num(<<2, 5, 5>>)),
      DigitalWriteLine(Num(<<1, 3>>), Word("HIGH")),
      DigitalWriteLine(Word("LED_PIN"), Word("HIGH")),
      DigitalWriteLine(Word("D2"), Num(<<1>>)),
      <<Word("digitalWrite"), Punct(";"), Blank>>
          \o AnalogWriteLine(Word("D2"), Num(<<2, 5, 5>>)),
      <<Blank, Word("delay"), Punct("("), Num(<<1, 0, 0, 0>>), Punct(")"), Punct(";")>> }

Sources(lines, n) == {JoinLines(ls) : ls \in SeqsUpTo(lines, n)}

\* the source texts handed to execute_code
ProgramSources == Sources(ProgramLines, MaxLines)

ParseSources == Sources(ParseLines, MaxParseLines)

\* the pin names and the values of the statements compared with one another
ComparedPins == {Word("D2"), Word("D13"), Word("D14"), Word("A0"), Num(<<1, 3>>)}

ComparedValues == {<<0>>, <<1, 2, 7>>, <<1, 2, 8>>, <<2, 5, 5>>}

ComparedLines ==
    {DigitalWriteLine(p, Word(v)) : p \in ComparedPins, v \in {"HIGH", "LOW"}}
    \cup {AnalogWriteLine(p, Num(v)) : p \in ComparedPins, v \in ComparedValues}

\* execute_code, lines 164-177: the statement form the line is tried against and
\* what the form's pattern finds in it
MatchLine(rawline) ==
    LET line == Strip(rawline)
    IN  IF InLine("digitalWrite", line)
        THEN [form |-> "digitalWrite", m |-> Search(line, 1, "digitalWrite")]
        ELSE IF InLine("analogWrite", line)
        THEN [form |-> "analogWrite", m |-> Search(line, 1, "analogWrite")]
        ELSE [form |-> "other", m |-> NoMatch]

\* MatchLine and split, computed once for each line and each text of the model
KnownLines == ProgramLines \cup ParseLines \cup ComparedLines \cup {<<>>}

LineMatches == [line \in KnownLines |-> MatchLine(line)]

KnownSources == ProgramSources \cup ParseSources \cup ComparedLines

SourceLines == [text \in KnownSources |-> SplitLines(text, 1, <<>>, <<>>)]

\* pin in self.arduino_pins, for the text of a matched group: a run of digits
\* is the name of no pin
PinKnown(s, tok) == tok.k = "w" /\ tok.s \in DOMAIN s.arduino_pins

\* the analogWrite branch with the threshold one too high
AnalogLevel_OffByOne(value) == value > 128

\* execute_code, line 182: the level an analogWrite value stands for
AnalogLevel(value) == value > 127

\* the digitalWrite branch comparing the value with "high"
DigitalLevel_WrongCase(tok) == tok.k = "w" /\ tok.s = "high"

\* execute_code, line 173: the level a digitalWrite value stands for
DigitalLevel(tok) == tok.k = "w" /\ tok.s = "HIGH"

\* execute_code calling set_pin for names that are in neither table too
ExecLine_NoPinCheck(s, rawline, dict, ws, wobjs) ==
    LET r == LineMatches[rawline]
        Named(tok) == tok.k = "w" /\ tok.s \notin DOMAIN s.analog_pins
    IN  IF r.form = "digitalWrite"
        THEN IF r.m.ok /\ Named(r.m.pin)
             THEN set_pin(s, r.m.pin.s, DigitalLevel(r.m.value), dict, ws, wobjs)
             ELSE s
        ELSE IF r.form = "analogWrite"
        THEN IF r.m.ok /\ Named(r.m.pin)
             THEN set_pin(s, r.m.pin.s, AnalogLevel(IntOf(r.m.value.d)), dict, ws, wobjs)
             ELSE s
        ELSE s

\* the body of the loop of execute_code (lines 163-182) for one line
ExecLine(s, rawline, dict, ws, wobjs) ==
    LET r == LineMatches[rawline]
    IN  IF r.form = "digitalWrite"
        THEN IF r.m.ok /\ PinKnown(s, r.m.pin)
             THEN set_pin(s, r.m.pin.s, DigitalLevel(r.m.value), dict, ws, wobjs)
             ELSE s
        ELSE IF r.form = "analogWrite"
        THEN IF r.m.ok /\ PinKnown(s, r.m.pin)
             THEN set_pin(s, r.m.pin.s, AnalogLevel(IntOf(r.m.value.d)), dict, ws, wobjs)
             ELSE s
        ELSE s

RECURSIVE ExecLines(_, _, _, _, _, _)
\* the loop of execute_code: the lines top to bottom, until one raises
ExecLines(s, lines, i, dict, ws, wobjs) ==
    IF i > Len(lines) \/ s.raised # NoError THEN s
    ELSE ExecLines(ExecLine(s, lines[i], dict, ws, wobjs), lines, i + 1, dict, ws, wobjs)

\* the effect of execute_code(text) on the tables and the components
Run(s, text, dict, ws, wobjs) ==
    ExecLines(s, SourceLines[text], 1, dict, ws, wobjs)

\* the simulator's tables and the components it refers to, in the current state
SimState ==
    [arduino_pins |-> arduino_pins, analog_pins |-> analog_pins,
     comps |-> comps, raised |-> NoError]

(***************************************************************************)
(* The objects and the inputs of the simulator-level specifications.       *)
(***************************************************************************)
\* CADCanvas.add_component: the new ComponentItem, with its id
NewComponent(component_type, counter) ==
    [ComponentItem(component_type) EXCEPT !.component_id = <<component_type, counter>>]

RECURSIVE AddAll(_, _)
\* the components after add_component was called for each type of the list
AddAll(types, acc) ==
    IF types = <<>> THEN acc
    ELSE AddAll(Tail(types), Append(acc, NewComponent(Head(types), Len(acc))))

PopulationTypes == <<"Arduino Uno", "LED", "Button">>

Population == AddAll(PopulationTypes, <<>>)

TheBoard == 1
TheLED == 2
TheButton == 3

\* the WireItem objects built for the simulator-level runs
WireCatalog ==
    << WireItem(TheBoard, "D2", TheLED, "Anode"),
       WireItem(TheButton, "Pin1", TheBoard, "D2"),
       WireItem(TheBoard, "D13", TheLED, "Anode"),
       WireItem(TheLED, "Anode", TheBoard, "D2") >>

WireD2ToLED == 1
WireButtonToD2 == 2
WireD13ToLED == 3
WireLEDToD2 == 4

\* the lists of components handed to load_circuit
ComponentLists == {<<TheBoard, TheLED, TheButton>>}

\* the states a Button is given from outside the simulator
ButtonStates == {EmptyDict, [pressed |-> FALSE], [pressed |-> TRUE]}

\* the wire lists handed to load_circuit
WireLists == SeqsUpTo(1..Len(WireCatalog), MaxWires)

ParseWireLists == SeqsUpTo(1..Len(WireCatalog), MaxParseWires)

(***************************************************************************)
(* CircuitSimulator: the calls.                                            *)
(***************************************************************************)
\* __init__ building the digital table without an entry for D13
SimulatorInit_NoD13 ==
    /\ arduino_pins = [p \in ARDUINO_DIGITAL_PINS \ {"D13"} |-> FALSE]
    /\ analog_pins = [p \in ARDUINO_ANALOG_PINS |-> 0]
    /\ components = <<>>
    /\ wires = <<>>
    /\ running = FALSE
    /\ code = <<>>
    /\ pc = Idle

\* CircuitSimulator.__init__
SimulatorInit ==
    /\ arduino_pins = [p \in ARDUINO_DIGITAL_PINS |-> FALSE]
    /\ analog_pins = [p \in ARDUINO_ANALOG_PINS |-> 0]
    /\ components = <<>>
    /\ wires = <<>>
    /\ running = FALSE
    /\ code = <<>>
    /\ pc = Idle

\* load_circuit clearing the digital table as it loads
LoadCircuit_ResetsTable(refs, ws) ==
    /\ components' = ComponentDict(comps, refs, 1, <<>>)
    /\ wires' = ws
    /\ arduino_pins' = [p \in DOMAIN arduino_pins |-> FALSE]
    /\ raised' = NoError
    /\ lastOp' = "load_circuit"
    /\ UNCHANGED <<comps, wireObjs, canvasVars, analog_pins, running, code, pc, probe>>

\* CircuitSimulator.load_circuit(components, wires)
LoadCircuit(refs, ws) ==
    /\ components' = ComponentDict(comps, refs, 1, <<>>)
    /\ wires' = ws
    /\ raised' = NoError
    /\ lastOp' = "load_circuit"
    /\ UNCHANGED <<comps, wireObjs, canvasVars, arduino_pins, analog_pins,
                   running, code, pc, probe>>

\* CircuitSimulator.execute_code(text)
ExecuteCode(text) ==
    LET s == Run(SimState, text, components, wires, wireObjs)
    IN  /\ code' = text
        /\ running' = TRUE
        /\ arduino_pins' = s.arduino_pins
        /\ analog_pins' = s.analog_pins
        /\ comps' = s.comps
        /\ raised' = s.raised
        /\ lastOp' = "execute_code"
        /\ UNCHANGED <<wireObjs, canvasVars, components, wires, pc, probe>>

\* a Button is pressed or released, or its state dict replaced, by the simulator's host
SetButtonState(ref, st) ==
    /\ comps[ref].component_type = "Button"
    /\ comps[ref].state # st
    /\ comps' = [comps EXCEPT ![ref].state = st]
    /\ raised' = NoError
    /\ lastOp' = "set_state"
    /\ UNCHANGED <<wireObjs, canvasVars, simVars, probe>>

NoProbe == [a |-> Pin("", ""), b |-> Pin("", ""), called |-> FALSE, result |-> FALSE]

\* a fresh simulator beside the components and wires built for it
Init ==
    /\ comps = Population
    /\ wireObjs = WireCatalog
    /\ scene = [i \in 1..Len(Population) |-> [kind |-> "component", ref |-> i]]
    /\ drawing_wire = FALSE
    /\ current_wire = None
    /\ wire_start_component = None
    /\ wire_start_pin = NoName
    /\ component_counter = Len(Population)
    /\ SimulatorInit
    /\ raised = NoError
    /\ lastOp = "init"
    /\ probe = NoProbe

Next ==
    \/ \E refs \in ComponentLists, ws \in WireLists :
          LoadCircuit(refs, ws)
    \/ \E text \in ProgramSources : ExecuteCode(text)
    \/ \E ref \in 1..Len(comps), st \in ButtonStates : SetButtonState(ref, st)

Spec == Init /\ [][Next]_vars

NextParse ==
    \/ \E refs \in ComponentLists, ws \in ParseWireLists :
          LoadCircuit(refs, ws)
    \/ \E text \in ParseSources : ExecuteCode(text)
    \/ \E ref \in 1..Len(comps), st \in ButtonStates : SetButtonState(ref, st)

SpecParse == Init /\ [][NextParse]_vars

(***************************************************************************)
(* CADCanvas and CADDesignerWindow: the design surface.                    *)
(***************************************************************************)
\* the component types added to the canvas
CanvasTypes == {"Arduino Uno", "LED", "Temperature Sensor", "DC Motor"}

\* the pins clicked while a wire is drawn
ClickPinNames == {"D2", "Anode", "VCC", "+"}

\* the source texts run from the code editor
CanvasSources ==
    { DigitalWriteLine(Word("D2"), Word("HIGH")),
      DigitalWriteLine(Word("D2"), Word("LOW")) }

RECURSIVE Reverse(_)
Reverse(seq) == IF seq = <<>> THEN <<>> ELSE Append(Reverse(Tail(seq)), Head(seq))

\* graphics_scene.items(): the items in descending stacking order, which for
\* items of one Z value is the last added first
SceneItems == Reverse(scene)

\* [item for item in items if isinstance(item, <kind>)], as references
ItemsOfKind(items, kind) ==
    LET sel == SelectSeq(items, LAMBDA it : it.kind = kind)
    IN  [i \in 1..Len(sel) |-> sel[i].ref]

OnScene(kind, ref) == \E i \in 1..Len(scene) : scene[i] = [kind |-> kind, ref |-> ref]

\* CADCanvas.__init__ beside a fresh simulator: nothing built yet
CanvasInit ==
    /\ comps = <<>>
    /\ wireObjs = <<>>
    /\ scene = <<>>
    /\ drawing_wire = FALSE
    /\ current_wire = None
    /\ wire_start_component = None
    /\ wire_start_pin = NoName
    /\ component_counter = 0
    /\ SimulatorInit
    /\ raised = NoError
    /\ lastOp = "init"
    /\ probe = NoProbe

\* CADCanvas.add_component(component_type)
AddComponent(component_type) ==
    /\ Len(comps) < MaxComps
    /\ comps' = Append(comps, NewComponent(component_type, component_counter))
    /\ component_counter' = component_counter + 1
    /\ scene' = Append(scene, [kind |-> "component", ref |-> Len(comps) + 1])
    /\ raised' = NoError
    /\ lastOp' = "add_component"
    /\ UNCHANGED <<wireObjs, drawing_wire, current_wire, wire_start_component,
                   wire_start_pin, simVars, probe>>

\* CADCanvas.start_wire_mode
StartWireMode ==
    /\ drawing_wire' = TRUE
    /\ current_wire' = None
    /\ wire_start_component' = None
    /\ wire_start_pin' = NoName
    /\ raised' = NoError
    /\ lastOp' = "start_wire_mode"
    /\ UNCHANGED <<comps, wireObjs, scene, component_counter, simVars, probe>>

\* CADCanvas.stop_wire_mode
StopWireMode ==
    /\ drawing_wire' = FALSE
    /\ current_wire' = None
    /\ wire_start_component' = None
    /\ wire_start_pin' = NoName
    /\ raised' = NoError
    /\ lastOp' = "stop_wire_mode"
    /\ UNCHANGED <<comps, wireObjs, scene, component_counter, simVars, probe>>

\* CADCanvas.mousePressEvent, lines 432-433: the wire being drawn gets its end
CompleteWire(wobjs, w, component, pin_name) ==
    [wobjs EXCEPT ![w].end_component = component, ![w].end_pin_name = pin_name]

\* CADCanvas.mousePressEvent: a left click, in wire mode, on pin number pin of a
\* component of the scene
MousePressEvent(component, pin) ==
    /\ drawing_wire
    /\ OnScene("component", component)
    /\ pin \in 1..Len(comps[component].pins)
    /\ IF current_wire = None
       THEN /\ Len(wireObjs) < MaxCanvasWires
            /\ wire_start_component' = component
            /\ wire_start_pin' = comps[component].pins[pin].name
            /\ wireObjs' = Append(wireObjs,
                                  WireItem(component, comps[component].pins[pin].name,
                                           None, NoName))
            /\ current_wire' = Len(wireObjs) + 1
            /\ scene' = Append(scene, [kind |-> "wire", ref |-> Len(wireObjs) + 1])
       ELSE /\ wireObjs' = CompleteWire(wireObjs, current_wire, component,
                                        comps[component].pins[pin].name)
            /\ current_wire' = None
            /\ wire_start_component' = None
            /\ wire_start_pin' = NoName
            /\ scene' = scene
    /\ raised' = NoError
    /\ lastOp' = "mousePressEvent"
    /\ UNCHANGED <<comps, drawing_wire, component_counter, simVars, probe>>

\* clear_canvas resetting the counter and leaving the items on the scene
ClearCanvas_KeepsScene ==
    /\ scene' = scene
    /\ component_counter' = 0
    /\ raised' = NoError
    /\ lastOp' = "clear_canvas"
    /\ UNCHANGED <<comps, wireObjs, drawing_wire, current_wire, wire_start_component,
                   wire_start_pin, simVars, probe>>

\* CADCanvas.clear_canvas
ClearCanvas ==
    /\ scene' = <<>>
    /\ component_counter' = 0
    /\ raised' = NoError
    /\ lastOp' = "clear_canvas"
    /\ UNCHANGED <<comps, wireObjs, drawing_wire, current_wire, wire_start_component,
                   wire_start_pin, simVars, probe>>

\* CADDesignerWindow._run_simulation(code): load the scene's components and wires,
\* then execute; an exception of execute_code is caught and logged
RunSimulation(text) ==
    LET dict == ComponentDict(comps, ItemsOfKind(SceneItems, "component"), 1, <<>>)
        ws == ItemsOfKind(SceneItems, "wire")
        s == Run(SimState, text, dict, ws, wireObjs)
    IN  /\ components' = dict
        /\ wires' = ws
        /\ code' = text
        /\ running' = TRUE
        /\ arduino_pins' = s.arduino_pins
        /\ analog_pins' = s.analog_pins
        /\ comps' = s.comps
        /\ raised' = NoError
        /\ lastOp' = "run_simulation"
        /\ UNCHANGED <<wireObjs, canvasVars, pc, probe>>

\* the pins of a component that get clicked
ClickablePins(component) ==
    {pin \in 1..Len(comps[component].pins) :
        comps[component].pins[pin].name \in ClickPinNames}

NextCanvas ==
    \/ \E component_type \in CanvasTypes : AddComponent(component_type)
    \/ StartWireMode
    \/ StopWireMode
    \/ \E component \in 1..Len(comps) :
          \E pin \in ClickablePins(component) : MousePressEvent(component, pin)
    \/ ClearCanvas
    \/ \E text \in CanvasSources : RunSimulation(text)

SpecCanvas == CanvasInit /\ [][NextCanvas]_vars

(***************************************************************************)
(* Pin.can_connect_to on its own.                                          *)
(***************************************************************************)
RECURSIVE PinsOfAll(_)
PinsOfAll(types) ==
    IF types = {} THEN {}
    ELSE LET ty == CHOOSE x \in types : TRUE
             pins == CreatePins(ty, DefaultWidth, DefaultHeight)
         IN  {pins[i] : i \in 1..Len(pins)} \cup PinsOfAll(types \ {ty})

\* every pin the palette's components own
PinCatalog == PinsOfAll(LibraryTypes)

\* two pins about to be asked whether they may be connected
PinsInit ==
    /\ comps = <<>>
    /\ wireObjs = <<>>
    /\ scene = <<>>
    /\ drawing_wire = FALSE
    /\ current_wire = None
    /\ wire_start_component = None
    /\ wire_start_pin = NoName
    /\ component_counter = 0
    /\ SimulatorInit
    /\ raised = NoError
    /\ lastOp = "init"
    /\ \E a \in PinCatalog, b \in PinCatalog :
          probe = [a |-> a, b |-> b, called |-> FALSE, result |-> FALSE]

\* probe.a.can_connect_to(probe.b)
CanConnectTo ==
    /\ ~probe.called
    /\ probe' = [probe EXCEPT !.called = TRUE, !.result = can_connect_to(probe.a, probe.b)]
    /\ lastOp' = "can_connect_to"
    /\ UNCHANGED <<comps, wireObjs, canvasVars, simVars, raised>>

NextPins == CanConnectTo

SpecPins == PinsInit /\ [][NextPins]_vars

(***************************************************************************)
(* Properties of the simulator.                                            *)
(***************************************************************************)
\* the current state is the one execute_code(code) returned in
AfterExec == lastOp = "execute_code"

\* the step is a call of execute_code(code')
ExecStep == lastOp' = "execute_code"

LoadedWire(i) == wireObjs[wires[i]]

\* wire w has pin P of a controller board as its end endpoint
EndsAtBoardPin(w, P) ==
    /\ w.end_component # None
    /\ Contains("Arduino", comps[w.end_component].component_type)
    /\ w.end_pin_name = P

\* wire w has pin P of a controller board as its start endpoint
StartsAtBoardPin(w, P) ==
    /\ w.start_component # None
    /\ Contains("Arduino", comps[w.start_component].component_type)
    /\ w.start_pin_name = P

LevelWord(V) == IF V THEN Word("HIGH") ELSE Word("LOW")

TablesAndComponents == <<arduino_pins, analog_pins, comps>>

\* C1 as stated: after execute_code ran the one line digitalWrite(P, V), whatever
\* graph is loaded, the digital table holds V for P.
C1_AnyGraph ==
    \A P \in ARDUINO_DIGITAL_PINS, V \in BOOLEAN :
        (AfterExec /\ code = DigitalWriteLine(Word(P), LevelWord(V)))
            => arduino_pins[P] = V

\* C1, amended: after execute_code ran the one line digitalWrite(P, V) on a loaded
\* graph none of whose wires has pin P of a controller board as its end endpoint,
\* the digital table holds V for P.
C1_WriteThenRead ==
    \A P \in ARDUINO_DIGITAL_PINS, V \in BOOLEAN :
        ( /\ AfterExec
          /\ code = DigitalWriteLine(Word(P), LevelWord(V))
          /\ \A i \in 1..Len(wires) : ~EndsAtBoardPin(LoadedWire(i), P) )
            => arduino_pins[P] = V

C1_Witness ==
    /\ AfterExec
    /\ code = DigitalWriteLine(Word("D2"), Word("HIGH"))
    /\ components # <<>>
    /\ wires = <<WireD2ToLED, WireD13ToLED>>
    /\ arduino_pins["D2"] = TRUE

\* C2: with the board and the LED loaded and the one wire board/D13 -> LED/Anode,
\* execute_code of digitalWrite(D13, HIGH) leaves the LED on with brightness 255,
\* and a following digitalWrite(D13, LOW) leaves it off with brightness 0.
C2_LedFollowsD13 ==
    ( /\ AfterExec
      /\ components # <<>>
      /\ wires = <<WireD13ToLED>> )
        => /\ code = DigitalWriteLine(Word("D13"), Word("HIGH"))
                => comps[TheLED].state = [on |-> TRUE, brightness |-> 255]
           /\ code = DigitalWriteLine(Word("D13"), Word("LOW"))
                => comps[TheLED].state = [on |-> FALSE, brightness |-> 0]

\* the Button wire is loaded and is the only loaded wire that ends at board/D2
ButtonIsTheInputOfD2 ==
    /\ components # <<>>
    /\ \E i \in 1..Len(wires) : wires[i] = WireButtonToD2
    /\ \A i \in 1..Len(wires) :
          EndsAtBoardPin(LoadedWire(i), "D2") => wires[i] = WireButtonToD2

\* C3: with the wire Button/Pin1 -> board/D2 as the connection of D2, after an
\* execute_code with a recognized write (to D2 or to another digital pin) the table
\* entry for D2 is true when the Button's state.pressed is true, and false when
\* the Button's state has no pressed key.
C3_ButtonReadsIntoD2 ==
    ( /\ AfterExec
      /\ code \in ProgramSources \ {<<>>}
      /\ ButtonIsTheInputOfD2 )
        => /\ ( /\ "pressed" \in DOMAIN comps[TheButton].state
                /\ comps[TheButton].state["pressed"] = TRUE )
                => arduino_pins["D2"] = TRUE
           /\ "pressed" \notin DOMAIN comps[TheButton].state
                => arduino_pins["D2"] = FALSE

C3_Witness ==
    /\ AfterExec
    /\ code = DigitalWriteLine(Word("D13"), Word("HIGH"))
    /\ ButtonIsTheInputOfD2
    /\ comps[TheButton].state = [pressed |-> TRUE]
    /\ arduino_pins["D2"] = TRUE

\* the step runs again the source text the previous call of execute_code ran,
\* nothing having been called in between
SecondRunOfSameSource == AfterExec /\ ExecStep /\ code' = code

\* C4 as stated: a second execute_code of the same source, run immediately after
\* the first on an unchanged graph, ends in the state the first ended in.
C4_Idempotent ==
    [][SecondRunOfSameSource => TablesAndComponents' = TablesAndComponents]_vars

\* no digital pin of a board is the end endpoint of one loaded wire and the start
\* endpoint of another
NoPinReadAndDriven ==
    \A i, j \in 1..Len(wires), P \in ARDUINO_DIGITAL_PINS :
        ~(EndsAtBoardPin(LoadedWire(i), P) /\ StartsAtBoardPin(LoadedWire(j), P))

\* C4, amended: on a loaded graph in which no digital pin of the board is the end
\* endpoint of one wire and the start endpoint of another, a second execute_code
\* of the same source ends in the state the first ended in.
C4_IdempotentWithoutFeedback ==
    [][(SecondRunOfSameSource /\ NoPinReadAndDriven)
          => TablesAndComponents' = TablesAndComponents]_vars

C4_Witness ==
    /\ AfterExec
    /\ NoPinReadAndDriven
    /\ wires = <<WireD2ToLED, WireD13ToLED>>
    /\ components # <<>>
    /\ code = JoinLines(<<DigitalWriteLine(Word("D2"), Word("LOW")),
                          DigitalWriteLine(Word("D2"), Word("HIGH"))>>)
    /\ comps[TheLED].state = [on |-> TRUE, brightness |-> 255]

\* the simulator as __init__ left it: nothing loaded, nothing run
FreshSimulator == ~running /\ components = <<>> /\ wires = <<>>

FirstWriteOnFreshSimulator ==
    /\ FreshSimulator
    /\ ExecStep
    /\ code' = DigitalWriteLine(Word("D13"), Word("HIGH"))

\* C5 as stated: on a fresh simulator execute_code("digitalWrite(D13, HIGH)")
\* changes no entry of the two pin tables.
C5_NoTableChange ==
    [][FirstWriteOnFreshSimulator
          => (arduino_pins' = arduino_pins /\ analog_pins' = analog_pins)]_vars

\* C5, amended: on a fresh simulator execute_code("digitalWrite(D13, HIGH)") sets
\* the digital table entry for D13 to true and changes nothing else: every other
\* entry of the two tables and every component's state is as before.
C5_OnlyD13Changes ==
    [][FirstWriteOnFreshSimulator
          => /\ arduino_pins' = [arduino_pins EXCEPT !["D13"] = TRUE]
             /\ analog_pins' = analog_pins
             /\ comps' = comps]_vars

C5_Witness ==
    /\ AfterExec
    /\ components = <<>>
    /\ wires = <<>>
    /\ code = DigitalWriteLine(Word("D13"), Word("HIGH"))
    /\ arduino_pins = [p \in ARDUINO_DIGITAL_PINS |-> p = "D13"]

\* C6: execute_code called before any load_circuit raises nothing, whatever the
\* source text.
C6_NoRaiseBeforeLoad ==
    (AfterExec /\ components = <<>> /\ wires = <<>>) => raised = NoError

C6_Witness ==
    /\ AfterExec
    /\ components = <<>>
    /\ wires = <<>>
    /\ code = DigitalWriteLine(Word("D2"), Word("HIGH"))
    /\ arduino_pins["D2"] = TRUE
    /\ raised = NoError

\* what execute_code(text) would leave in the tables and the components
Outcome(text) == Run(SimState, text, components, wires, wireObjs)

\* str(V) for the values compared
ValueDigits(V) ==
    CASE V = 0 -> <<0>>
      [] V = 127 -> <<1, 2, 7>>
      [] V = 128 -> <<1, 2, 8>>
      [] V = 255 -> <<2, 5, 5>>

\* C7: from every state, analogWrite(P, V) leaves the tables and the components as
\* digitalWrite(P, HIGH) does when V > 127 and as digitalWrite(P, LOW) does when
\* V <= 127.
C7_AnalogWriteIsThresholdedDigitalWrite ==
    \A P \in ComparedPins, V \in {0, 127, 128, 255} :
        Outcome(AnalogWriteLine(P, Num(ValueDigits(V))))
            = Outcome(DigitalWriteLine(P, LevelWord(V > 127)))

C7_Witness ==
    /\ AfterExec
    /\ code = AnalogWriteLine(Word("D2"), Num(<<1, 2, 8>>))
    /\ wires = <<WireD2ToLED>>
    /\ components # <<>>
    /\ arduino_pins["D2"] = TRUE
    /\ comps[TheLED].state = [on |-> TRUE, brightness |-> 255]

\* one-line source texts whose statement names no pin of D0..D13
UnknownPinTexts ==
    { DigitalWriteLine(Word("D14"), Word("HIGH")),
      AnalogWriteLine(Word("A0"), Num(<<2, 5, 5>>)),
      DigitalWriteLine(Num(<<1, 3>>), Word("HIGH")),
      DigitalWriteLine(Word("LED_PIN"), Word("HIGH")) }

\* C8: a digitalWrite or analogWrite naming a pin that is not one of D0..D13 is
\* ignored: nothing is raised, neither table changes, no component state changes
\* (so no propagation pass ran, even where a pass would have changed something).
C8_UnknownPinIgnored ==
    [][(ExecStep /\ code' \in UnknownPinTexts)
          => /\ TablesAndComponents' = TablesAndComponents
             /\ raised' = NoError]_vars

\* after such a statement a pressed Button wired to D2 has still not been read
C8_Witness ==
    /\ AfterExec
    /\ code \in UnknownPinTexts
    /\ components # <<>>
    /\ wires = <<WireButtonToD2>>
    /\ comps[TheButton].state = [pressed |-> TRUE]
    /\ arduino_pins["D2"] = FALSE

(***************************************************************************)
(* Properties of the design surface and of the pins.                       *)
(***************************************************************************)
Completed(w) == w.start_component # None /\ w.end_component # None

StartPinOf(w) ==
    comps[w.start_component].pins[get_pin_by_name(comps[w.start_component],
                                                  w.start_pin_name)]

EndPinOf(w) ==
    comps[w.end_component].pins[get_pin_by_name(comps[w.end_component], w.end_pin_name)]

\* C9: no completed wire joins two power-type pins whose names differ: completing
\* such a wire is refused with a ValidationError.
C9_PowerMismatchRefused ==
    \A i \in 1..Len(wireObjs) :
        Completed(wireObjs[i])
            => ~( /\ StartPinOf(wireObjs[i]).pin_type = "power"
                  /\ EndPinOf(wireObjs[i]).pin_type = "power"
                  /\ StartPinOf(wireObjs[i]).name # EndPinOf(wireObjs[i]).name )

\* C10 as stated: can_connect_to is false exactly when both pins are power-type
\* and their names differ.
C10_FalseIffBothPowerAndNamesDiffer ==
    probe.called
        => ( probe.result = FALSE
               <=> ( /\ probe.a.pin_type = "power"
                     /\ probe.b.pin_type = "power"
                     /\ probe.a.name # probe.b.name ) )

\* C10, amended: can_connect_to is false exactly when at least one of the two
\* pins is power-type and their names differ, and true in every other case; a
\* ground-type pin can connect, in either direction, to every pin that is not
\* power-type, and to a power-type pin only of its own name.
C10_FalseIffSomePowerAndNamesDiffer ==
    probe.called
        => ( probe.result = FALSE
               <=> ( /\ probe.a.pin_type = "power" \/ probe.b.pin_type = "power"
                     /\ probe.a.name # probe.b.name ) )

C10_Witness ==
    /\ probe.called
    /\ probe.a = Pin("GND", "gnd")
    /\ probe.b = Pin("VCC", "power")
    /\ probe.result = FALSE

(***************************************************************************)
(* Properties of the interpreter's flag and of the board's pins.           *)
(***************************************************************************)
\* C11: the interpreter is Idle (running = false) before the first execute_code
\* and Idle again as soon as a call of execute_code has returned.
C11_IdleAfterReturn ==
    /\ lastOp = "init" => ~running
    /\ AfterExec => ~running

\* cad_designer.py, line 28
ARDUINO_POWER_PINS == {"5V", "3.3V", "GND", "VIN"}

\* the names of the pins a component owns, and how many pins carry a name
PinNames(component) == {component.pins[i].name : i \in 1..Len(component.pins)}

PinsNamed(component, name) ==
    Cardinality({i \in 1..Len(component.pins) : component.pins[i].name = name})

\* C12: a controller board added to the canvas owns exactly one pin for each of
\* D0..D13, A0..A5, 5V, 3.3V, GND and VIN, and no other pin.
C12_BoardOwnsEveryPin ==
    \A i \in 1..Len(comps) :
        Contains("Arduino", comps[i].component_type)
            => /\ PinNames(comps[i])
                    = ARDUINO_DIGITAL_PINS \cup ARDUINO_ANALOG_PINS \cup ARDUINO_POWER_PINS
               /\ \A name \in PinNames(comps[i]) : PinsNamed(comps[i], name) = 1
               /\ \A name \in PinNames(comps[i]) :
                     get_pin_by_name(comps[i], name) # None

(***************************************************************************)
(* Circuit graphs of every shape: graphs with and without a board, wires   *)
(* between components that are not the board, wires naming a pin their     *)
(* component does not own.                                                 *)
(***************************************************************************)
MaxGraphWires == 2

\* obj without the attribute attr
Without(obj, attr) == [f \in DOMAIN obj \ {attr} |-> obj[f]]

\* the components of Population, then a Resistor, then two objects that are not
\* ComponentItems: an LED-like object with no component_id and an object with no
\* component_type
GraphPopulation ==
    AddAll(<<"Arduino Uno", "LED", "Button", "Resistor">>, <<>>)
        \o << Without(ComponentItem("LED"), "component_id"),
              Without(NewComponent("LED", 5), "component_type") >>

TheResistor == 4
TheNoIdLED == 5
TheTypeless == 6

\* the wires of WireCatalog, then wires to and between components that are not
\* the board, a wire naming a pin the Button does not own, three objects that
\* lack an attribute of a WireItem, and a second wire from the board to the LED
GraphWireCatalog ==
    WireCatalog
        \o << WireItem(TheBoard, "D2", TheResistor, "T1"),
              WireItem(TheResistor, "T2", TheLED, "Anode"),
              WireItem(TheBoard, "D2", TheButton, "Pin1"),
              WireItem(TheButton, "Pin9", TheBoard, "D2"),
              Without(WireItem(TheBoard, "D2", TheLED, "Anode"), "end_component"),
              Without(WireItem(TheButton, "Pin1", TheBoard, "D2"), "start_component"),
              Without(WireItem(TheBoard, "D2", TheLED, "Anode"), "start_pin_name"),
              WireItem(TheBoard, "D8", TheLED, "Anode") >>

WireD2ToResistor == 5
WireResistorToLED == 6
WireD2ToButton == 7
WireButtonPin9ToD2 == 8
WireNoEnd == 9
WireNoStart == 10
WireNoPinName == 11
WireD8ToLED == 12

\* the components handed to load_circuit: a graph with a board, one without
GraphComponentLists ==
    { <<TheBoard, TheLED, TheButton, TheResistor>>,
      <<TheLED, TheButton, TheResistor>> }

GraphWires == ((WireD2ToLED..WireButtonPin9ToD2) \ {WireLEDToD2}) \cup {WireD8ToLED}

GraphWireLists == SeqsUpTo(GraphWires, MaxGraphWires)

\* the one-line source texts run on the graphs
GraphSources ==
    { DigitalWriteLine(Word("D2"), Word("HIGH")),
      DigitalWriteLine(Word("D2"), Word("LOW")) }

GraphInit ==
    /\ comps = GraphPopulation
    /\ wireObjs = GraphWireCatalog
    /\ scene = [i \in 1..TheResistor |-> [kind |-> "component", ref |-> i]]
    /\ drawing_wire = FALSE
    /\ current_wire = None
    /\ wire_start_component = None
    /\ wire_start_pin = NoName
    /\ component_counter = TheResistor
    /\ SimulatorInit
    /\ raised = NoError
    /\ lastOp = "init"
    /\ probe = NoProbe

NextGraph ==
    \/ \E refs \in GraphComponentLists, ws \in GraphWireLists :
          LoadCircuit(refs, ws)
    \/ \E text \in GraphSources : ExecuteCode(text)
    \/ \E st \in ButtonStates : SetButtonState(TheButton, st)

SpecGraph == GraphInit /\ [][NextGraph]_vars

\* the objects handed to load_circuit that lack an attribute: a component list
\* holding the object with no component_id or the one with no component_type
LooseComponentLists ==
    { <<TheBoard, TheLED, TheNoIdLED>>,
      <<TheTypeless, TheBoard, TheLED>> }

LooseWires == {WireD2ToLED, WireNoEnd, WireNoStart, WireNoPinName}

LooseWireLists == SeqsUpTo(LooseWires, MaxGraphWires)

NextLoose ==
    \/ \E refs \in LooseComponentLists, ws \in LooseWireLists :
          LoadCircuit(refs, ws)
    \/ \E text \in GraphSources : ExecuteCode(text)

SpecLoose == GraphInit /\ [][NextLoose]_vars

(***************************************************************************)
(* Properties of the propagation pass on graphs of every shape.            *)
(***************************************************************************)
\* what execute_code(text) would leave were the wire list ws loaded
OutcomeWith(text, ws) == Run(SimState, text, components, ws, wireObjs)

HasBothComponents(w) ==
    hasattr(wireObjs[w], "start_component") /\ hasattr(wireObjs[w], "end_component")

\* every loaded component has a component_type, and every loaded wire that has
\* its two components has its two pin names
OnlyFilteredAttributesMissing ==
    /\ \A i \in 1..Len(components) : hasattr(comps[components[i].ref], "component_type")
    /\ \A i \in 1..Len(wires) :
          HasBothComponents(wires[i])
              => /\ hasattr(wireObjs[wires[i]], "start_pin_name")
                 /\ hasattr(wireObjs[wires[i]], "end_pin_name")

StoredLevel(text, P) ==
    IF text = DigitalWriteLine(Word(P), Word("HIGH")) THEN TRUE
    ELSE IF text = DigitalWriteLine(Word(P), Word("LOW")) THEN FALSE
    ELSE arduino_pins[P]

ButtonPressed ==
    /\ "pressed" \in DOMAIN comps[TheButton].state
    /\ comps[TheButton].state["pressed"]

\* C14: a recognized write triggers one pass over the wires, in list order, and
\* no second one.  With board/D2 -> LED/Anode listed before Button/Pin1 ->
\* board/D2, the LED gets the level D2 held when its wire was evaluated and the
\* Button's level, written into the table later in the pass, reaches the LED only
\* with the pass of the next write; with the two wires in the other order the
\* LED gets the Button's level in the same pass.
C14_SinglePassInListOrder ==
    [][(ExecStep /\ code' \in ProgramLines /\ components # <<>>)
          => /\ wires = <<WireD2ToLED, WireButtonToD2>>
                   => /\ comps'[TheLED].state["on"] = StoredLevel(code', "D2")
                      /\ arduino_pins'["D2"] = ButtonPressed
             /\ wires = <<WireButtonToD2, WireD2ToLED>>
                   => /\ comps'[TheLED].state["on"] = ButtonPressed
                      /\ arduino_pins'["D2"] = ButtonPressed]_vars

\* the table holds the pressed Button's level for D2 while the LED driven by D2
\* is still off
C14_Witness ==
    /\ AfterExec
    /\ code = DigitalWriteLine(Word("D2"), Word("LOW"))
    /\ components # <<>>
    /\ wires = <<WireD2ToLED, WireButtonToD2>>
    /\ arduino_pins["D2"] = TRUE
    /\ comps[TheLED].state = [on |-> FALSE, brightness |-> 0]

\* wire number w is loaded at place i and no wire listed after it ends at board/P
LastToEndAt(i, w, P) ==
    /\ i \in 1..Len(wires)
    /\ wires[i] = w
    /\ \A j \in (i + 1)..Len(wires) : ~EndsAtBoardPin(LoadedWire(j), P)

\* C15: a pass over the wire LED/Anode -> board/D2 writes false into the table
\* entry for D2, whatever the LED's state, and leaves the LED's state as it was.
C15_NonButtonReadsFalse ==
    [][(ExecStep /\ code' \in ProgramSources \ {<<>>} /\ components # <<>>)
          => /\ (\E i \in 1..Len(wires) : LastToEndAt(i, WireLEDToD2, "D2"))
                   => arduino_pins'["D2"] = FALSE
             /\ wires = <<WireLEDToD2>> => comps' = comps]_vars

\* D2 was written HIGH and reads false after the pass, the LED being on
C15_Witness ==
    /\ AfterExec
    /\ code = DigitalWriteLine(Word("D2"), Word("HIGH"))
    /\ components # <<>>
    /\ wires = <<WireLEDToD2>>
    /\ comps[TheLED].state = [on |-> TRUE, brightness |-> 255]
    /\ arduino_pins["D2"] = FALSE

\* the loaded component map holds no controller board
NoBoardLoaded ==
    \A i \in 1..Len(components) :
        ~Contains("Arduino", comps[components[i].ref].component_type)

\* C16: with no controller board in the loaded graph the pass of a write does
\* nothing, whatever the wire list: no component's state changes, the table
\* holds what the write stored, and nothing is raised.
C16_NoBoardNoPass ==
    [][(ExecStep /\ NoBoardLoaded)
          => /\ comps' = comps
             /\ arduino_pins' = [arduino_pins EXCEPT !["D2"] = StoredLevel(code', "D2")]
             /\ raised' = NoError]_vars

\* D2 was driven HIGH, a wire leads from it to the LED, and the LED is off
C16_Witness ==
    /\ AfterExec
    /\ code = DigitalWriteLine(Word("D2"), Word("HIGH"))
    /\ Len(components) = 3
    /\ NoBoardLoaded
    /\ wires = <<WireButtonToD2, WireD2ToLED>>
    /\ ~ButtonPressed
    /\ arduino_pins["D2"] = TRUE
    /\ comps[TheLED].state = [on |-> FALSE, brightness |-> 0]

\* an endpoint of wire number w names a pin its component does not own
PinMiss(w) ==
    \/ wireObjs[w].start_pin_name \notin PinNames(comps[wireObjs[w].start_component])
    \/ wireObjs[w].end_pin_name \notin PinNames(comps[wireObjs[w].end_component])

ResolvesBothPins(w) == ~PinMiss(w)

\* C17: a wire one of whose pin names its component does not own is skipped
\* without raising: a write leaves the tables and the components exactly as it
\* does with that wire taken out of the list, the wires before and after it being
\* evaluated all the same.
C17_PinMissSkipped ==
    components # <<>>
        => \A text \in GraphSources :
              /\ OutcomeWith(text, wires)
                    = OutcomeWith(text, SelectSeq(wires, ResolvesBothPins))
              /\ OutcomeWith(text, wires).raised = NoError

\* the wire after the skipped one was evaluated: the LED is on
C17_Witness ==
    /\ AfterExec
    /\ code = DigitalWriteLine(Word("D2"), Word("HIGH"))
    /\ ~NoBoardLoaded
    /\ wires = <<WireD13ToLED, WireD2ToLED>>
    /\ PinMiss(WireD13ToLED)
    /\ comps[TheLED].state = [on |-> TRUE, brightness |-> 255]
    /\ raised = NoError

\* an endpoint of wire number w is a controller board
TouchesBoard(w) ==
    \/ Contains("Arduino", comps[wireObjs[w].start_component].component_type)
    \/ Contains("Arduino", comps[wireObjs[w].end_component].component_type)

\* C18: a wire neither of whose endpoints is the board changes nothing: a write
\* leaves the table and the components as it does with such wires taken out of
\* the list.  With board/D2 -> Resistor/T1 and Resistor/T2 -> LED/Anode loaded, no
\* write changes the state of the LED or of any other component.
C18_NoHopAcrossComponents ==
    [][ExecStep
          => /\ arduino_pins' = OutcomeWith(code', SelectSeq(wires, TouchesBoard)).arduino_pins
             /\ comps' = OutcomeWith(code', SelectSeq(wires, TouchesBoard)).comps
             /\ wires = <<WireD2ToResistor, WireResistorToLED>> => comps' = comps]_vars

\* D2 is HIGH, the chain through the Resistor is loaded, the LED is off
C18_Witness ==
    /\ AfterExec
    /\ code = DigitalWriteLine(Word("D2"), Word("HIGH"))
    /\ ~NoBoardLoaded
    /\ wires = <<WireD2ToResistor, WireResistorToLED>>
    /\ arduino_pins["D2"] = TRUE
    /\ comps[TheLED].state = [on |-> FALSE, brightness |-> 0]

\* the step is a call of load_circuit or of execute_code
SimulatorStep == lastOp' \in {"load_circuit", "execute_code"}

IsLED(component) ==
    hasattr(component, "component_type") /\ component.component_type = "LED"

\* C19: no call of load_circuit or execute_code modifies a component that is not
\* an LED (the board, a Button, a Resistor), whatever is wired to it; of an LED
\* nothing but the state is written.
C19_OnlyLedStateWritten ==
    [][SimulatorStep
          => \A c \in 1..Len(comps) :
                IF IsLED(comps[c])
                THEN comps'[c] = [comps[c] EXCEPT !.state = comps'[c].state]
                ELSE comps'[c] = comps[c]]_vars

\* D2 is HIGH and drives a Button and a Resistor, whose states are as created
C19_Witness ==
    /\ AfterExec
    /\ code = DigitalWriteLine(Word("D2"), Word("HIGH"))
    /\ ~NoBoardLoaded
    /\ wires = <<WireD2ToButton, WireD2ToResistor>>
    /\ arduino_pins["D2"] = TRUE
    /\ comps[TheButton].state = [pressed |-> FALSE]
    /\ comps[TheResistor].state = EmptyDict

(***************************************************************************)
(* Properties of the line interpreter.                                     *)
(***************************************************************************)
\* "digitalWrite; analogWrite(D2, 255);": the word digitalWrite with no
\* arguments, then a well-formed analogWrite on a known pin
MixedLine ==
    <<Word("digitalWrite"), Punct(";"), Blank>>
        \o AnalogWriteLine(Word("D2"), Num(<<2, 5, 5>>))

\* C20: the write of a line is the one of its first well-formed statement: the
\* line "digitalWrite; analogWrite(D2, 255);" writes HIGH to D2, which the table
\* shows when no loaded wire ends at board/D2.
C20_FirstWellFormedStatementApplied ==
    ( /\ AfterExec
      /\ code = MixedLine
      /\ \A i \in 1..Len(wires) : ~EndsAtBoardPin(LoadedWire(i), "D2") )
        => arduino_pins["D2"] = TRUE

\* "  digitalWrite(D2, 1);": a known pin, a value that is neither HIGH nor LOW
NumericLevelLine == DigitalWriteLine(Word("D2"), Num(<<1>>))

\* C21: a digitalWrite on a known pin whose value is neither HIGH nor LOW is
\* skipped: the line digitalWrite(D2, 1) changes no table entry and no pass runs,
\* so no component changes either.
C21_OtherValueSkipped ==
    [][(ExecStep /\ code' = NumericLevelLine)
          => TablesAndComponents' = TablesAndComponents]_vars

\* C22: after any sequence of load_circuit and execute_code calls the digital
\* table has exactly the keys D0..D13, each holding a boolean, and the analog
\* table exactly the keys A0..A5, each holding an integer of 0..255.
C22_TablesKeepTheirShape ==
    /\ DOMAIN arduino_pins = ARDUINO_DIGITAL_PINS
    /\ \A p \in DOMAIN arduino_pins : arduino_pins[p] \in BOOLEAN
    /\ DOMAIN analog_pins = ARDUINO_ANALOG_PINS
    /\ \A p \in DOMAIN analog_pins : analog_pins[p] \in 0..255

\* an analogWrite naming an analog pin has run after a digital entry was set
C22_Witness ==
    /\ AfterExec
    /\ code = AnalogWriteLine(Word("A0"), Num(<<2, 5, 5>>))
    /\ arduino_pins["D2"] = TRUE
    /\ analog_pins["A0"] = 0
    /\ wires # <<>>

(***************************************************************************)
(* Properties of the design surface's simulation runs.                     *)
(***************************************************************************)
\* what _run_simulation(text) would leave in the tables and the components were
\* the wire list ws handed to load_circuit beside the scene's components
CanvasOutcome(text, ws) ==
    Run(SimState, text,
        ComponentDict(comps, ItemsOfKind(SceneItems, "component"), 1, <<>>),
        ws, wireObjs)

CompletedWire(w) == Completed(wireObjs[w])

\* C23 as stated: the wire list the simulator was handed holds completed wires
\* only.
C23_OnlyCompletedWiresLoaded ==
    \A i \in 1..Len(wires) : CompletedWire(wires[i])

\* C23, amended: a simulation run hands the simulator every wire of the scene, a
\* wire whose end is still unset included, and such a wire changes nothing: the
\* run leaves the tables and the components as it does with the completed wires
\* alone, and raises nothing.
C23_IncompleteWiresInert ==
    \A text \in CanvasSources :
        /\ CanvasOutcome(text, ItemsOfKind(SceneItems, "wire"))
              = CanvasOutcome(text, SelectSeq(ItemsOfKind(SceneItems, "wire"),
                                              CompletedWire))
        /\ CanvasOutcome(text, ItemsOfKind(SceneItems, "wire")).raised = NoError

\* a run was handed the wire started at board/D2 and never ended; D2 is HIGH
C23_Witness ==
    /\ lastOp = "run_simulation"
    /\ code = DigitalWriteLine(Word("D2"), Word("HIGH"))
    /\ Len(wires) = 1
    /\ ~CompletedWire(wires[1])
    /\ wireObjs[wires[1]].start_pin_name = "D2"
    /\ ~drawing_wire
    /\ Len(components) = 2
    /\ arduino_pins["D2"] = TRUE

\* the components on the canvas, as references
CanvasComponents == ItemsOfKind(SceneItems, "component")

\* C24: after any sequence of add_component and clear_canvas the components on
\* the canvas have ids that are set and pairwise distinct, and the simulator's
\* id -> component map built from them has an entry for each.
C24_CanvasIdsDistinct ==
    /\ \A i \in 1..Len(CanvasComponents) :
          comps[CanvasComponents[i]].component_id # NoId
    /\ \A i, j \in 1..Len(CanvasComponents) :
          i # j => comps[CanvasComponents[i]].component_id
                      # comps[CanvasComponents[j]].component_id
    /\ Len(ComponentDict(comps, CanvasComponents, 1, <<>>)) = Len(CanvasComponents)

\* an LED was added, the canvas cleared, and an LED added again: the one on the
\* canvas has the id the cleared one had
C24_Witness ==
    /\ lastOp = "add_component"
    /\ Len(comps) = 2
    /\ comps[1].component_id = comps[2].component_id
    /\ Len(CanvasComponents) = 1
    /\ CanvasComponents[1] = 2
    /\ component_counter = 1

(***************************************************************************)
(* execute_code in steps: the call, one step per line scanned, one step    *)
(* per wire of a propagation pass, and the return.  The interpreter runs   *)
(* on one thread, so load_circuit and a change of a Button happen only     *)
(* between two calls.                                                      *)
(***************************************************************************)
\* set_pin, lines 90-94: the level stored in the table that holds the name
StorePin(s, pin_name, value) ==
    IF pin_name \in DOMAIN s.arduino_pins
    THEN [s EXCEPT !.arduino_pins[pin_name] = value]
    ELSE IF pin_name \in DOMAIN s.analog_pins
    THEN [s EXCEPT !.analog_pins[pin_name] = value]
    ELSE s

NoWrite == [ok |-> FALSE, pin |-> NoName, value |-> FALSE]

\* the call of set_pin one line of the source makes, if it makes one
WriteOf(s, rawline) ==
    LET r == LineMatches[rawline]
    IN  IF r.form = "digitalWrite"
        THEN IF r.m.ok /\ PinKnown(s, r.m.pin)
             THEN [ok |-> TRUE, pin |-> r.m.pin.s, value |-> DigitalLevel(r.m.value)]
             ELSE NoWrite
        ELSE IF r.form = "analogWrite"
        THEN IF r.m.ok /\ PinKnown(s, r.m.pin)
             THEN [ok |-> TRUE, pin |-> r.m.pin.s,
                   value |-> AnalogLevel(IntOf(r.m.value.d))]
             ELSE NoWrite
        ELSE NoWrite

\* the lines of the text being executed
Lines == SourceLines[code]

\* execute_code is called: lines 158-162
BeginExecute(text) ==
    /\ pc.at = "idle"
    /\ code' = text
    /\ running' = TRUE
    /\ pc' = [at |-> "scan", line |-> 1, wire |-> 0, start |-> SimState]
    /\ raised' = NoError
    /\ lastOp' = "call"
    /\ UNCHANGED <<comps, wireObjs, canvasVars, arduino_pins, analog_pins,
                   components, wires, probe>>

\* one turn of the loop over the lines, up to the loop over the wires: the line
\* is matched, a recognized write is stored by set_pin and _propagate_signals
\* looks for the board
ScanLine ==
    /\ pc.at = "scan"
    /\ pc.line <= Len(Lines)
    /\ LET w == WriteOf(SimState, Lines[pc.line])
           s == StorePin(SimState, w.pin, w.value)
           found == FindArduino(comps, components, 1)
       IN  IF ~w.ok
           THEN /\ pc' = [pc EXCEPT !.line = @ + 1]
                /\ UNCHANGED <<arduino_pins, analog_pins, raised>>
           ELSE /\ arduino_pins' = s.arduino_pins
                /\ analog_pins' = s.analog_pins
                /\ raised' = found.raised
                /\ pc' = IF found.raised # NoError THEN Idle
                         ELSE IF found.arduino = None
                         THEN [pc EXCEPT !.line = @ + 1]
                         ELSE [pc EXCEPT !.at = "pass", !.wire = 1]
    /\ lastOp' = "scan"
    /\ UNCHANGED <<comps, wireObjs, canvasVars, components, wires, running, code, probe>>

\* one turn of the loop over the wires
PassWire ==
    /\ pc.at = "pass"
    /\ pc.wire <= Len(wires)
    /\ LET found == FindArduino(comps, components, 1)
           s == PropagateWire(SimState, found.arduino, wireObjs[wires[pc.wire]])
       IN  /\ arduino_pins' = s.arduino_pins
           /\ analog_pins' = s.analog_pins
           /\ comps' = s.comps
           /\ raised' = s.raised
           /\ pc' = IF s.raised # NoError THEN Idle ELSE [pc EXCEPT !.wire = @ + 1]
    /\ lastOp' = "wire"
    /\ UNCHANGED <<wireObjs, canvasVars, components, wires, running, code, probe>>

\* the loop over the wires going back to the first wire without end
EndPass_SamePass ==
    /\ pc.at = "pass"
    /\ pc.wire > Len(wires)
    /\ pc' = [pc EXCEPT !.wire = 1]
    /\ lastOp' = "pass"
    /\ UNCHANGED <<comps, wireObjs, canvasVars, arduino_pins, analog_pins,
                   components, wires, running, code, raised, probe>>

\* the loop over the wires is exhausted: _propagate_signals and set_pin return,
\* the loop over the lines goes on
EndPass ==
    /\ pc.at = "pass"
    /\ pc.wire > Len(wires)
    /\ pc' = [pc EXCEPT !.at = "scan", !.line = @ + 1, !.wire = 0]
    /\ lastOp' = "pass"
    /\ UNCHANGED <<comps, wireObjs, canvasVars, arduino_pins, analog_pins,
                   components, wires, running, code, raised, probe>>

\* the loop over the lines is exhausted: execute_code returns
Return ==
    /\ pc.at = "scan"
    /\ pc.line > Len(Lines)
    /\ pc' = Idle
    /\ lastOp' = "execute_code"
    /\ UNCHANGED <<comps, wireObjs, canvasVars, arduino_pins, analog_pins,
                   components, wires, running, code, raised, probe>>

\* the steps of a call under way
Progress == ScanLine \/ PassWire \/ EndPass \/ Return

NextSteps ==
    \/ \E text \in ProgramSources : BeginExecute(text)
    \/ ScanLine
    \/ PassWire
    \/ EndPass
    \/ Return
    \/ /\ pc.at = "idle"
       /\ \E refs \in ComponentLists, ws \in WireLists : LoadCircuit(refs, ws)
    \/ /\ pc.at = "idle"
       /\ \E st \in ButtonStates : SetButtonState(TheButton, st)

SpecSteps == Init /\ [][NextSteps]_vars

\* a call under way is never suspended for good: the interpreter runs it to its
\* return on the thread that called it
FairSteps == SpecSteps /\ WF_vars(Progress)

\* the result of execute_code on the first n lines
AfterLines(n) ==
    ExecLines(pc.start, SubSeq(Lines, 1, n), 1, components, wires, wireObjs)

\* the state in the pass of line n, before the wire at position i is looked at
InPass(n, i) ==
    LET w == WriteOf(AfterLines(n - 1), Lines[n])
        s == StorePin(AfterLines(n - 1), w.pin, w.value)
    IN  PropagateWires(s, FindArduino(comps, components, 1).arduino,
                       SubSeq(wires, 1, i - 1), wireObjs, 1)

\* at every step of a call the tables and the components are what the lines
\* above the current one, each with its whole pass, and the wires of the
\* current pass before the current one have made of them
Sequential ==
    /\ pc.at = "scan" => SimState = AfterLines(pc.line - 1)
    /\ pc.at = "pass" => SimState = InPass(pc.line, pc.wire)

\* C25: every call of execute_code returns, and it is sequential: a line is
\* scanned only when the pass of the write above it has gone over all wires, and
\* at the return every pass is complete.
C25_TerminatesSequential ==
    /\ []Sequential
    /\ (pc.at # "idle") ~> (pc.at = "idle")

\* a call with two recognized writes over two wires has returned
C25_Witness ==
    /\ lastOp = "execute_code"
    /\ pc = Idle
    /\ code = JoinLines(<<DigitalWriteLine(Word("D2"), Word("LOW")),
                          DigitalWriteLine(Word("D2"), Word("HIGH"))>>)
    /\ wires = <<WireButtonToD2, WireD2ToLED>>
    /\ comps[TheLED].state.on

(***************************************************************************)
(* Properties of an LED and the board pin that drives it.                  *)
(***************************************************************************)
\* the text holds a line that makes execute_code call set_pin
HasRecognizedWrite(text) ==
    \E n \in 1..Len(SourceLines[text]) : WriteOf(SimState, SourceLines[text][n]).ok

\* the loaded wire at place i starts at pin P of a controller board and ends at
\* the Anode of an LED
DrivesLed(i, P) ==
    /\ StartsAtBoardPin(LoadedWire(i), P)
    /\ IsLED(comps[LoadedWire(i).end_component])
    /\ LoadedWire(i).end_pin_name = "Anode"

LedOf(i) == comps[LoadedWire(i).end_component]

\* the board owns pin P
BoardOwns(i, P) == P \in PinNames(comps[LoadedWire(i).start_component])

\* C26 as stated: after execute_code returned from a source with a recognized
\* write, whatever the wire list, every LED at the end of a wire that starts at
\* board pin P is on exactly when the table entry for P is true.
C26_LedShowsPin ==
    (AfterExec /\ HasRecognizedWrite(code))
        => \A i \in 1..Len(wires), P \in ARDUINO_DIGITAL_PINS :
              DrivesLed(i, P) => LedOf(i).state["on"] = arduino_pins[P]

\* C26, amended: after execute_code returned from a source with a recognized
\* write on a loaded graph that holds the board, an LED at the end of a wire
\* that starts at a pin P the board owns is on exactly when the table entry for
\* P is true, provided no wire listed later ends at board/P with both its pins
\* resolved and no wire listed later drives the same LED from a pin the board
\* owns.
C26_LastDriverShowsPin ==
    (AfterExec /\ HasRecognizedWrite(code) /\ ~NoBoardLoaded)
        => \A i \in 1..Len(wires), P \in ARDUINO_DIGITAL_PINS :
              ( /\ DrivesLed(i, P)
                /\ BoardOwns(i, P)
                /\ \A j \in (i + 1)..Len(wires) :
                      /\ ~(EndsAtBoardPin(LoadedWire(j), P) /\ ResolvesBothPins(wires[j]))
                      /\ \A Q \in ARDUINO_DIGITAL_PINS :
                            ~( /\ DrivesLed(j, Q)
                               /\ BoardOwns(j, Q)
                               /\ LoadedWire(j).end_component = LoadedWire(i).end_component ) )
                  => LedOf(i).state["on"] = arduino_pins[P]

\* the LED is lit through board/D2 -> LED/Anode, listed after a wire that writes
\* the pressed Button into D2
C26_Witness ==
    /\ AfterExec
    /\ code = DigitalWriteLine(Word("D2"), Word("LOW"))
    /\ wires = <<WireButtonToD2, WireD2ToLED>>
    /\ ~NoBoardLoaded
    /\ comps[TheLED].state["on"]
    /\ arduino_pins["D2"]

\* C27: in every reachable state every LED has a brightness of 0 or 255 and is
\* on exactly when its brightness is 255.
C27_LedOnIffFullBrightness ==
    \A c \in 1..Len(comps) :
        IsLED(comps[c])
            => /\ comps[c].state["brightness"] \in {0, 255}
               /\ comps[c].state["on"] = (comps[c].state["brightness"] = 255)

\* a write has lit the LED, after an earlier write had put it out
C27_Witness ==
    /\ AfterExec
    /\ code = JoinLines(<<DigitalWriteLine(Word("D2"), Word("LOW")),
                          DigitalWriteLine(Word("D2"), Word("HIGH"))>>)
    /\ wires = <<WireD2ToLED, WireLEDToD2>>
    /\ comps[TheLED].state["on"]
    /\ comps[TheLED].state["brightness"] = 255

(***************************************************************************)
(* Properties of the order of the lines and of the order of the wires.     *)
(***************************************************************************)
\* the places of the lines of the text that make execute_code call set_pin for P
WritesTo(text, P) ==
    {n \in 1..Len(SourceLines[text]) :
        /\ WriteOf(SimState, SourceLines[text][n]).ok
        /\ WriteOf(SimState, SourceLines[text][n]).pin = P}

Last(places) == CHOOSE n \in places : \A k \in places : k <= n

\* the level of the last write to P in the text
LastValue(text, P) == WriteOf(SimState, SourceLines[text][Last(WritesTo(text, P))]).value

\* no loaded wire has board/P as its end endpoint
NoWireEndsAt(P) == \A i \in 1..Len(wires) : ~EndsAtBoardPin(LoadedWire(i), P)

\* C28: the lines are applied top to bottom.  After execute_code of a source with
\* several recognized writes to one pin P, on a graph with no wire ending at
\* board/P, the table entry for P is the level of the last of these writes, and
\* so is every LED wired board/P -> LED/Anode.
C28_LastWriteWins ==
    \A P \in ARDUINO_DIGITAL_PINS :
        ( /\ AfterExec
          /\ components # <<>>
          /\ Cardinality(WritesTo(code, P)) > 1
          /\ NoWireEndsAt(P) )
            => /\ arduino_pins[P] = LastValue(code, P)
               /\ \A i \in 1..Len(wires) :
                     DrivesLed(i, P) => LedOf(i).state["on"] = LastValue(code, P)

\* C29: load_circuit changes the component map and the wire list and nothing
\* else: the two tables and every component are as they were, so that a pin an
\* earlier execute_code drove HIGH is HIGH after the reload.
C29_LoadCircuitKeepsTablesAndStates ==
    [][lastOp' = "load_circuit"
          => /\ arduino_pins' = arduino_pins
             /\ analog_pins' = analog_pins
             /\ comps' = comps
             /\ running' = running
             /\ code' = code]_vars

\* a graph without wires was loaded over a lit LED and a HIGH pin
C29_Witness ==
    /\ lastOp = "load_circuit"
    /\ wires = <<>>
    /\ running
    /\ arduino_pins["D2"]
    /\ comps[TheLED].state["on"]

\* the places of the loaded wires that have board/P as their end endpoint
EndingAt(P) == {i \in 1..Len(wires) : EndsAtBoardPin(LoadedWire(i), P)}

\* what a pass reads from component c: pressed for a Button, false for any other
ReadOf(c) ==
    /\ comps[c].component_type = "Button"
    /\ "pressed" \in DOMAIN comps[c].state
    /\ comps[c].state["pressed"]

\* C30: when several loaded wires end at the same board pin P, after the pass of
\* a write the table entry for P is what was read from the start component of
\* the last of them in list order.
C30_LastInputWireWins ==
    \A P \in ARDUINO_DIGITAL_PINS :
        (AfterExec /\ HasRecognizedWrite(code) /\ Cardinality(EndingAt(P)) > 1)
            => arduino_pins[P] = ReadOf(LoadedWire(Last(EndingAt(P))).start_component)

\* the pressed Button is wired to D2 first and an LED, which reads false, last
C30_Witness ==
    /\ AfterExec
    /\ code = DigitalWriteLine(Word("D2"), Word("HIGH"))
    /\ wires = <<WireButtonToD2, WireLEDToD2>>
    /\ ButtonPressed
    /\ ~arduino_pins["D2"]

====
